---- MODULE Spec2Model ----
(***************************************************************************)
(* Model of gh_labeler.py: one invocation of the labeler against a forge.  *)
(* The forge holds the rule file, the pull request's changed files and the *)
(* labels attached to the issue.  GhLabeler.__init__ loads the rules,      *)
(* GhLabeler.apply computes the add and remove sets and                    *)
(* GhLabeler._update_issue_labels issues the DELETE and POST calls.  Every *)
(* forge call is one step, and every forge call may fail (RuntimeError).   *)
(*                                                                         *)
(* A label name is a sequence of characters, so that str.lower() is        *)
(* computed and not assumed.  A path and a glob pattern are sequences of   *)
(* path segments.                                                          *)
(***************************************************************************)
EXTENDS Naturals, Sequences, FiniteSets

VARIABLES
    config,         \* forge: the rules of the configuration file
    changed,        \* forge: the changed files of the pull request
    issue,          \* forge: the label names attached to the issue
    debug,          \* self.debug
    pc,             \* position of the process
    labels,         \* self.labels
    add_labels,     \* apply: add_labels
    remove_labels,  \* apply: remove_labels
    cur,            \* _update_issue_labels: labels (lowercase, as fetched)
    remove,         \* _update_issue_labels: remove, the part not yet sent
    before,         \* history: the labels attached when the run started
    removed,        \* history: the names this run sent a DELETE for
    posted,         \* history: the number of POST calls this run sent
    run             \* history: the number of the invocation

vars == <<config, changed, issue, debug, pc, labels, add_labels,
          remove_labels, cur, remove, before, removed, posted, run>>

----------------------------------------------------------------------------
(* Bounds *)

MaxRules == 2
MaxFiles == 2
MaxRuns == 2

----------------------------------------------------------------------------
(* str.lower() *)

UpperCase == <<"A", "B", "C", "D", "E", "F", "G", "H", "I", "J", "K", "L", "M",
               "N", "O", "P", "Q", "R", "S", "T", "U", "V", "W", "X", "Y", "Z">>
LowerCase == <<"a", "b", "c", "d", "e", "f", "g", "h", "i", "j", "k", "l", "m",
               "n", "o", "p", "q", "r", "s", "t", "u", "v", "w", "x", "y", "z">>

\* the lowercase letter of every uppercase letter
ToLower ==
    [c \in {UpperCase[i] : i \in DOMAIN UpperCase} |->
        LowerCase[CHOOSE i \in DOMAIN UpperCase : UpperCase[i] = c]]

\* str.lower() that leaves the case as it is
LowerCharIdentity(c) == c

LowerChar(c) == IF c \in DOMAIN ToLower THEN ToLower[c] ELSE c

Lower(name) == [i \in DOMAIN name |-> LowerChar(name[i])]

LowerSet(names) == {Lower(n) : n \in names}

----------------------------------------------------------------------------
(* glob.globmatch with GLOBSTAR: a pattern and a path are split at "/";   *)
(* "**" matches any number of segments, "*" one segment, any other        *)
(* segment itself.  The patterns of the model use no negation, brace,     *)
(* split or extended syntax, so the other flags change nothing here.      *)

RECURSIVE GlobMatch(_, _)
GlobMatch(file, pattern) ==
    IF pattern = <<>> THEN file = <<>>
    ELSE IF Head(pattern) = "**"
         THEN GlobMatch(file, Tail(pattern))
              \/ (file # <<>> /\ GlobMatch(Tail(file), pattern))
         ELSE /\ file # <<>>
              /\ (Head(pattern) = "*" \/ Head(pattern) = Head(file))
              /\ GlobMatch(Tail(file), Tail(pattern))

----------------------------------------------------------------------------
(* GhLabeler.apply: the add set *)

NoAdd == [add |-> {}, i_add |-> {}]

\* lines 276-280 with match never reset to False
RuleMatchesAlways(file, rule) == TRUE

\* lines 276-280: match is set by the first pattern that matches
RuleMatches(file, rule) ==
    \E j \in DOMAIN rule.patterns : GlobMatch(file, rule.patterns[j])

\* lines 282-285
RECURSIVE AddNames(_, _, _)
AddNames(names, index, acc) ==
    IF index > Len(names) THEN acc
    ELSE LET low == Lower(names[index])
         IN  IF low \notin acc.i_add
             THEN AddNames(names, index + 1,
                           [add |-> acc.add \cup {names[index]},
                            i_add |-> acc.i_add \cup {low}])
             ELSE AddNames(names, index + 1, acc)

\* the loop of lines 273-286 without the break of line 286
RECURSIVE ScanRulesNoBreak(_, _, _, _)
ScanRulesNoBreak(file, rules, i, acc) ==
    IF i > Len(rules) THEN acc
    ELSE IF RuleMatches(file, rules[i])
         THEN ScanRulesNoBreak(file, rules, i + 1, AddNames(rules[i].labels, 1, acc))
         ELSE ScanRulesNoBreak(file, rules, i + 1, acc)

\* lines 273-286: the rules in order, stopping at the first that matches
RECURSIVE ScanRules(_, _, _, _)
ScanRules(file, rules, i, acc) ==
    IF i > Len(rules) THEN acc
    ELSE IF RuleMatches(file, rules[i])
         THEN AddNames(rules[i].labels, 1, acc)
         ELSE ScanRules(file, rules, i + 1, acc)

\* line 272: the changed files in listing order
RECURSIVE ScanFiles(_, _, _, _)
ScanFiles(files, rules, k, acc) ==
    IF k > Len(files) THEN acc
    ELSE ScanFiles(files, rules, k + 1, ScanRules(files[k], rules, 1, acc))

ComputeAdd(files, rules) == ScanFiles(files, rules, 1, NoAdd)

----------------------------------------------------------------------------
(* GhLabeler.apply: the remove set *)

NoRemove == [rem |-> {}, i_rem |-> {}]

\* line 294 without its test of i_add_labels
KeepsOutOfRemoveNoAdd(low, i_add, i_rem) == low \notin i_rem

\* line 294
KeepsOutOfRemove(low, i_add, i_rem) == low \notin i_add /\ low \notin i_rem

\* lines 293-296
RECURSIVE RemNames(_, _, _, _)
RemNames(names, index, i_add, acc) ==
    IF index > Len(names) THEN acc
    ELSE LET low == Lower(names[index])
         IN  IF KeepsOutOfRemove(low, i_add, acc.i_rem)
             THEN RemNames(names, index + 1, i_add,
                           [rem |-> acc.rem \cup {names[index]},
                            i_rem |-> acc.i_rem \cup {low}])
             ELSE RemNames(names, index + 1, i_add, acc)

\* lines 290-296
RECURSIVE RemRules(_, _, _, _)
RemRules(rules, i, i_add, acc) ==
    IF i > Len(rules) THEN acc
    ELSE RemRules(rules, i + 1, i_add, RemNames(rules[i].labels, 1, i_add, acc))

ComputeRemove(rules, i_add) == RemRules(rules, 1, i_add, NoRemove)

----------------------------------------------------------------------------
(* GhLabeler._update_issue_labels: the names to send a DELETE for *)

\* lines 253-259 with every fetched label taken for one to remove
RemoveListAll(rem_labels, attached) == attached

\* lines 253-259.  remove_labels holds one name per lowercase identity
\* (line 294), so `seen` never rejects a name; the list is modelled as the
\* set of its names, and the order of the set iteration of line 255 as the
\* choice DeleteLabel makes.
RemoveList(rem_labels, attached) ==
    {n \in rem_labels : Lower(n) \in attached}

----------------------------------------------------------------------------
(* The forge: label names are matched regardless of case *)

\* DELETE .../issues/<number>/labels/<name>
ForgeHas(attached, name) == \E a \in attached : Lower(a) = Lower(name)
ForgeDelete(attached, name) == {a \in attached : Lower(a) # Lower(name)}

\* POST .../issues/<number>/labels {"labels": names}
ForgeAdd(attached, names) ==
    attached \cup {n \in names : ~ForgeHas(attached, n)}

----------------------------------------------------------------------------
(* The inputs: what the forge holds when the process starts *)

bug == <<"b", "u", "g">>
Bug == <<"B", "u", "g">>
docs == <<"d", "o", "c", "s">>
wip == <<"w", "i", "p">>

DocsGlob == <<"docs", "**">>
SrcGlob == <<"src", "**">>

LabelLists == {<<bug>>, <<docs>>, <<Bug, docs>>}
PatternLists == {<<DocsGlob>>, <<SrcGlob, DocsGlob>>}
FileNames == {<<"docs", "readme.md">>, <<"src", "main.go">>, <<"README.md">>}
AttachNames == {Bug, bug, docs, wip}

Rules == [labels : LabelLists, patterns : PatternLists]

SeqsUpTo(S, n) == UNION {[1..m -> S] : m \in 0..n}

Injective(s) == \A i, j \in DOMAIN s : s[i] = s[j] => i = j

\* the forge attaches one label per identity
AttachSets ==
    {s \in SUBSET AttachNames : \A a, b \in s : Lower(a) = Lower(b) => a = b}

RuleSets == {rs \in SeqsUpTo(Rules, MaxRules) : rs # <<>>}
FileLists == {fs \in SeqsUpTo(FileNames, MaxFiles) : Injective(fs)}

----------------------------------------------------------------------------
(* The process *)

Init ==
    /\ config \in RuleSets
    /\ changed \in FileLists
    /\ issue \in AttachSets
    /\ debug \in BOOLEAN
    /\ pc = "init"
    /\ labels = <<>>
    /\ add_labels = {}
    /\ remove_labels = {}
    /\ cur = {}
    /\ remove = {}
    /\ before = issue
    /\ removed = {}
    /\ posted = 0
    /\ run = 1

\* where _update_issue_labels goes once `remove` is sent: lines 262-263
AfterRemove(rest) ==
    IF rest # {} THEN "remove"
    ELSE IF add_labels # {} THEN "add" ELSE "done"

\* GhLabeler.__init__: get_contents succeeds, self.labels = config['rules']
Construct ==
    /\ pc = "init"
    /\ labels' = config
    /\ pc' = "apply"
    /\ UNCHANGED <<config, changed, issue, debug, add_labels, remove_labels,
                   cur, remove, before, removed, posted, run>>

\* GhLabeler.apply up to the call of _update_issue_labels: the compare
\* request succeeds, then the add and remove sets are computed
Apply ==
    /\ pc = "apply"
    /\ LET a == ComputeAdd(changed, labels)
           r == ComputeRemove(labels, a.i_add)
       IN  /\ add_labels' = a.add
           /\ remove_labels' = r.rem
    /\ pc' = "update"
    /\ UNCHANGED <<config, changed, issue, debug, labels, cur, remove,
                   before, removed, posted, run>>

\* _update_issue_labels, lines 249-260: get_issue_labels succeeds and the
\* list of names to remove is built
FetchLabels ==
    /\ pc = "update"
    /\ cur' = LowerSet(issue)
    /\ remove' = IF remove_labels # {} THEN RemoveList(remove_labels, LowerSet(issue))
                 ELSE {}
    /\ pc' = AfterRemove(remove')
    /\ UNCHANGED <<config, changed, issue, debug, labels, add_labels,
                   remove_labels, before, removed, posted, run>>

\* Api.remove_issue_labels: one DELETE of the loop of line 180 succeeds
\* (status 200: the label was attached)
DeleteLabel ==
    /\ pc = "remove"
    /\ \E name \in remove :
        /\ ForgeHas(issue, name)
        /\ issue' = ForgeDelete(issue, name)
        /\ removed' = removed \cup {name}
        /\ remove' = remove \ {name}
        /\ pc' = AfterRemove(remove \ {name})
    /\ UNCHANGED <<config, changed, debug, labels, add_labels, remove_labels,
                   cur, before, posted, run>>

\* Api.add_issue_labels: the POST of line 263 succeeds
AddLabels ==
    /\ pc = "add"
    /\ issue' = ForgeAdd(issue, add_labels)
    /\ posted' = posted + 1
    /\ pc' = "done"
    /\ UNCHANGED <<config, changed, debug, labels, add_labels, remove_labels,
                   cur, remove, before, removed, run>>

\* Api._get, _delete, _post: the request fails or answers another status,
\* the RuntimeError ends the process
Fail ==
    /\ pc \in {"init", "apply", "update", "remove", "add"}
    /\ pc' = "failed"
    /\ UNCHANGED <<config, changed, issue, debug, labels, add_labels,
                   remove_labels, cur, remove, before, removed, posted, run>>

\* main() once more: a new process after one that ended with status 0,
\* the forge as that one left it
Rerun ==
    /\ pc = "done"
    /\ run < MaxRuns
    /\ run' = run + 1
    /\ pc' = "init"
    /\ labels' = <<>>
    /\ add_labels' = {}
    /\ remove_labels' = {}
    /\ cur' = {}
    /\ remove' = {}
    /\ before' = issue
    /\ removed' = {}
    /\ posted' = 0
    /\ UNCHANGED <<config, changed, issue, debug>>

Next == Construct \/ Apply \/ FetchLabels \/ DeleteLabel \/ AddLabels \/ Fail

Spec == Init /\ [][Next]_vars

NextTwice == Next \/ Rerun

SpecTwice == Init /\ [][NextTwice]_vars

----------------------------------------------------------------------------
(* Vocabulary of the properties *)

\* apply has computed the add and remove sets, and the run has not failed
Computed == pc \in {"update", "remove", "add", "done"}

\* the lowercase identities a rule declares, and those any rule declares
RuleLows(rule) == {Lower(rule.labels[j]) : j \in DOMAIN rule.labels}
Declared(rules) == UNION {RuleLows(rules[i]) : i \in DOMAIN rules}
DeclaredNames(rules) ==
    UNION {{rules[i].labels[j] : j \in DOMAIN rules[i].labels} : i \in DOMAIN rules}

\* some pattern of the rule matches the file
PatternHits(file, rule) ==
    \E j \in DOMAIN rule.patterns : GlobMatch(file, rule.patterns[j])

\* the identities the first rule matching the file declares
FirstRuleLows(file, rules) ==
    LET hits == {i \in DOMAIN rules : PatternHits(file, rules[i])}
    IN  IF hits = {} THEN {}
        ELSE RuleLows(rules[CHOOSE i \in hits : \A h \in hits : i <= h])

\* the identity of a name of this model, told without str.lower(): Bug and
\* bug are the only names here that differ in case alone
Identity(name) == IF name = Bug THEN bug ELSE name
Identities(names) == {Identity(n) : n \in names}

\* the number of label-modifying calls the run has sent
Writes == Cardinality(removed) + posted

\* the labels of a run that applied every removal and every addition
Reconciled ==
    ForgeAdd({n \in before : Lower(n) \notin LowerSet(remove_labels)}, add_labels)

----------------------------------------------------------------------------
(* The properties *)

\* C1: a second run right after a successful one, nothing changed in
\* between, sends no DELETE and no POST.
C1_SecondRunSilent == run > 1 => (removed = {} /\ posted = 0)

\* C2: with debug enabled a run sends no DELETE and no POST.
C2_DryRunSilent == debug => (removed = {} /\ posted = 0)

\* C3: a run sends at most one label-modifying call.
C3_AtMostOneWrite == Writes <= 1

\* C4: once apply has computed them, the identities of the add set and of
\* the remove set are disjoint and together are the identities the rules
\* declare.
C4_Partition ==
    Computed =>
        /\ LowerSet(add_labels) \cap LowerSet(remove_labels) = {}
        /\ LowerSet(add_labels) \cup LowerSet(remove_labels) = Declared(labels)

C4_Witness == pc = "update" /\ add_labels # {} /\ remove_labels # {}

\* C5: a run that failed left the issue's labels as they were before the
\* run or fully reconciled, never in between.
C5_NoPartialUpdate == pc = "failed" => (issue = before \/ issue = Reconciled)

\* C6: the identities of the add set are those of the first matching rule
\* of each changed file; a later rule that matches the same file adds
\* nothing for it.
C6_FirstMatchWins ==
    Computed =>
        LowerSet(add_labels) =
            UNION {FirstRuleLows(changed[k], labels) : k \in DOMAIN changed}

C6_Witness ==
    /\ pc = "update"
    /\ \E k \in DOMAIN changed : \E i, j \in DOMAIN labels :
        /\ i < j
        /\ PatternHits(changed[k], labels[i])
        /\ PatternHits(changed[k], labels[j])
        /\ RuleLows(labels[i]) \cap RuleLows(labels[j]) = {}
        /\ RuleLows(labels[i]) \subseteq LowerSet(add_labels)
        /\ RuleLows(labels[j]) \cap LowerSet(add_labels) = {}

\* C7: every identity of the add set is declared by a rule with a pattern
\* that matches a changed file; with no changed file or no matching
\* pattern the add set is empty.
C7_DesiredSound ==
    Computed =>
        LET hit == {i \in DOMAIN labels :
                        \E k \in DOMAIN changed : PatternHits(changed[k], labels[i])}
        IN  /\ \A low \in LowerSet(add_labels) :
                    \E i \in hit : low \in RuleLows(labels[i])
            /\ hit = {} => add_labels = {}

C7_Witness ==
    /\ pc = "update"
    /\ add_labels # {}
    /\ \E i \in DOMAIN labels : \A k \in DOMAIN changed :
        ~PatternHits(changed[k], labels[i])

\* C8: a label attached before the run whose identity no rule declares is
\* never sent a DELETE and stays attached; every name sent a DELETE has an
\* identity that is declared and not in the add set.
C8_UnmanagedUntouched ==
    LET managed == Declared(config)
        desired == LowerSet(add_labels)
        targets == LowerSet(removed)
    IN  /\ \A n \in before :
            Lower(n) \notin managed => (n \in issue /\ Lower(n) \notin targets)
        /\ \A low \in targets : low \in managed /\ low \notin desired

C8_Witness ==
    /\ pc = "done"
    /\ removed # {}
    /\ \E n \in before : Lower(n) \notin Declared(config)

C10_ReconciledExactly ==
    (pc = "done" /\ ~debug) =>
        /\ LowerSet(issue) = (cur \ LowerSet(remove_labels)) \cup LowerSet(add_labels)
        /\ (Writes > 0) <=> (LowerSet(issue) # cur)

====
